---- MODULE Spec2Model ----
(***************************************************************************)
(* SHA-1 length extension (src/crypto/hash_vegas/sha1_extend.py).          *)
(*                                                                         *)
(* Python integers are unbounded; the model keeps one as a pair            *)
(* <<hi, lo>> standing for hi * 2^16 + lo with lo in 0..2^16-1 and hi any  *)
(* integer (negative for a negative number, as floor division gives it).   *)
(* A 32-bit word is a pair with hi in 0..2^16-1 as well.  Bytes are        *)
(* numbers 0..255, byte strings are sequences of them, and a character     *)
(* string is a sequence of one-character strings.                          *)
(***************************************************************************)
EXTENDS Integers, Sequences, FiniteSets, TLC

\* ------------------------------------------------------------------------
\* State

VARIABLES
    call,               \* the entry point this run exercises
    pc,                 \* where the run is
    error,              \* "none", or the exception that ended the run
    \* the demo (lines 122-141)
    secret, variant, original_hash, test_message, test_run,
    \* sha1_extend: arguments, locals, return value
    original_hash_hex, original_data, append_data, secret_length,
    h, original_msg_len, padding, new_data, result,
    \* sha1_extend_hash: arguments, locals, return value
    initial_state, data, previous_length,
    total_length, padded_data, i, hs, new_hash,
    blocks,             \* the blocks handed to sha1_process_block so far
    broke,              \* the break of line 73 was taken
    \* sha1_process_block: the last call's arguments and what it went through
    block, state_in, trace,
    \* sha1_padding called on its own
    arg_msg_len, pad_out


Half == 2^16

\* ------------------------------------------------------------------------
\* Python integer arithmetic on <<hi, lo>> pairs.

\* x & y, x | y, x ^ y of two integers in infinite two's complement, bit by
\* bit (floor division and a non-negative remainder give a negative
\* number's bits).
RECURSIVE AndBits(_, _)
AndBits(x, y) ==
    IF x = 0 \/ y = 0 THEN 0
    ELSE IF x = -1 THEN y
    ELSE IF y = -1 THEN x
    ELSE (x % 2) * (y % 2) + 2 * AndBits(x \div 2, y \div 2)

RECURSIVE OrBits(_, _)
OrBits(x, y) ==
    IF x = 0 THEN y
    ELSE IF y = 0 THEN x
    ELSE IF x = -1 \/ y = -1 THEN -1
    ELSE (IF x % 2 = 1 \/ y % 2 = 1 THEN 1 ELSE 0) + 2 * OrBits(x \div 2, y \div 2)

RECURSIVE XorBits(_, _)
XorBits(x, y) ==
    IF x = 0 THEN y
    ELSE IF y = 0 THEN x
    ELSE IF x = -1 THEN -y - 1
    ELSE IF y = -1 THEN -x - 1
    ELSE ((x + y) % 2) + 2 * XorBits(x \div 2, y \div 2)

\* Bit k of x, for x >= 0
Bit(x, k) == (x \div (2^k)) % 2

\* The same on two bytes a and b, one bit at a time: op is the operation on
\* two bits, given as the 4 results for the bit pairs 00, 01, 10, 11.
OfBytes(op, a, b) ==
    op[2 * Bit(a, 0) + Bit(b, 0) + 1] + 2 * op[2 * Bit(a, 1) + Bit(b, 1) + 1]
    + 4 * op[2 * Bit(a, 2) + Bit(b, 2) + 1] + 8 * op[2 * Bit(a, 3) + Bit(b, 3) + 1]
    + 16 * op[2 * Bit(a, 4) + Bit(b, 4) + 1] + 32 * op[2 * Bit(a, 5) + Bit(b, 5) + 1]
    + 64 * op[2 * Bit(a, 6) + Bit(b, 6) + 1] + 128 * op[2 * Bit(a, 7) + Bit(b, 7) + 1]

\* Tabulated once, at index 256 * a + b + 1.
AndByte == SubSeq([k \in 1..65536 |->
                      OfBytes(<<0, 0, 0, 1>>, (k - 1) \div 256, (k - 1) % 256)], 1, 65536)
OrByte  == SubSeq([k \in 1..65536 |->
                      OfBytes(<<0, 1, 1, 1>>, (k - 1) \div 256, (k - 1) % 256)], 1, 65536)
XorByte == SubSeq([k \in 1..65536 |->
                      OfBytes(<<0, 1, 1, 0>>, (k - 1) \div 256, (k - 1) % 256)], 1, 65536)

InHalf(x) == x >= 0 /\ x < Half

\* The operations on integers: byte by byte through the tables when both
\* are in 0..2^16-1, bit by bit otherwise.
BitAnd(x, y) ==
    IF InHalf(x) /\ InHalf(y)
    THEN 256 * AndByte[256 * (x \div 256) + (y \div 256) + 1]
         + AndByte[256 * (x % 256) + (y % 256) + 1]
    ELSE AndBits(x, y)

BitOr(x, y) ==
    IF InHalf(x) /\ InHalf(y)
    THEN 256 * OrByte[256 * (x \div 256) + (y \div 256) + 1]
         + OrByte[256 * (x % 256) + (y % 256) + 1]
    ELSE OrBits(x, y)

BitXor(x, y) ==
    IF InHalf(x) /\ InHalf(y)
    THEN 256 * XorByte[256 * (x \div 256) + (y \div 256) + 1]
         + XorByte[256 * (x % 256) + (y % 256) + 1]
    ELSE XorBits(x, y)

IntAnd(a, b) == <<BitAnd(a[1], b[1]), BitAnd(a[2], b[2])>>
IntOr(a, b)  == <<BitOr(a[1], b[1]), BitOr(a[2], b[2])>>
IntXor(a, b) == <<BitXor(a[1], b[1]), BitXor(a[2], b[2])>>
\* ~a = -a - 1
IntNot(a)    == <<-a[1] - 1, Half - 1 - a[2]>>
\* a + b, the carry of the low halves moved into the high half
IntAdd(a, b) == <<a[1] + b[1] + ((a[2] + b[2]) \div Half), (a[2] + b[2]) % Half>>
\* a & 0xffffffff
Mask32(a)    == <<a[1] % Half, a[2]>>
\* 0 <= a < 2^32
IsWord(a)    == a[1] \in 0..(Half - 1) /\ a[2] \in 0..(Half - 1)

\* (n << b) & 0xffffffff for 0 <= b < 32 (the mask of line 121 taken on each
\* side of the |, which it distributes over: n << 30 itself has 62 bits).
ShiftLeft32(n, b) ==
    LET m == IF b >= 16 THEN <<n[2], 0>> ELSE n
        s == IF b >= 16 THEN b - 16 ELSE b
        lo == (m[2] % (2^(16 - s))) * (2^s)
        hi == (m[1] % (2^(16 - s))) * (2^s) + (m[2] \div (2^(16 - s)))
    IN  <<hi % Half, lo>>

\* n >> k for 0 < k <= 32 and 0 <= n < 2^32
ShiftRight(n, k) ==
    IF k >= 16
    THEN <<0, n[1] \div (2^(k - 16))>>
    ELSE <<n[1] \div (2^k), (n[1] % (2^k)) * (2^(16 - k)) + (n[2] \div (2^k))>>

left_rotate(n0, b) ==
    LET n == Mask32(n0)
    IN  Mask32(IntOr(ShiftLeft32(n, b), ShiftRight(n, 32 - b)))

\* ------------------------------------------------------------------------
\* struct.pack / struct.unpack

\* struct.unpack('>I', b): four bytes, big-endian, as one word
UnpackI(b) == <<b[1] * 256 + b[2], b[3] * 256 + b[4]>>
\* struct.pack('>I', x) for a word x
PackI(x) == <<x[1] \div 256, x[1] % 256, x[2] \div 256, x[2] % 256>>

\* struct.unpack('>16I', block): defined for a buffer of exactly 64 bytes
\* (struct.error otherwise)
Unpack16I(blk) == [j \in 1..16 |-> UnpackI(SubSeq(blk, 4 * j - 3, 4 * j))]

\* struct.pack('>Q', v), 0 <= v < 2^64: eight bytes, big-endian
RECURSIVE PackBE(_, _)
PackBE(v, n) == IF n = 0 THEN <<>> ELSE Append(PackBE(v \div 256, n - 1), v % 256)
PackQ(v) == PackBE(v, 8)

\* the number eight big-endian bytes stand for
RECURSIVE UnpackBE(_)
UnpackBE(b) == IF b = <<>> THEN 0
               ELSE UnpackBE(SubSeq(b, 1, Len(b) - 1)) * 256 + b[Len(b)]

Zeros(n) == [j \in 1..n |-> 0]

\* ------------------------------------------------------------------------
\* sha1_process_block

K1 == <<23170, 31129>>   \* 0x5A827999
K2 == <<28377, 60321>>   \* 0x6ED9EBA1
K3 == <<36635, 48348>>   \* 0x8F1BBCDC
K4 == <<51810, 49622>>   \* 0xCA62C1D6

\* lines 88-89: the schedule is filled in place from its 17th word on
\* (Python's w[i] is w[t] with t = i + 1 here, so t runs over 17..80 = Len(w))
RECURSIVE Expand(_, _)
Expand(w, t) ==
    IF t > Len(w) THEN w
    ELSE Expand([w EXCEPT ![t] = left_rotate(
                    IntXor(IntXor(IntXor(w[t - 3], w[t - 8]), w[t - 14]), w[t - 16]), 1)],
                t + 1)

\* line 87: the block's 16 words, then 64 zeros
Schedule(blk) == Expand(Unpack16I(blk) \o [j \in 1..64 |-> <<0, 0>>], 17)

\* lines 92-103: the round function and constant of round t (Python's i)
RoundF(t, b, c, d) ==
    IF t < 20 THEN IntOr(IntAnd(b, c), IntAnd(IntNot(b), d))
    ELSE IF t < 40 THEN IntXor(IntXor(b, c), d)
    ELSE IF t < 60 THEN IntOr(IntOr(IntAnd(b, c), IntAnd(b, d)), IntAnd(c, d))
    ELSE IntXor(IntXor(b, c), d)

RoundK(t) == IF t < 20 THEN K1 ELSE IF t < 40 THEN K2 ELSE IF t < 60 THEN K3 ELSE K4

\* a + b + c + d + e, the carry of the low halves moved into the high half
IntSum5(a, b, c, d, e) ==
    <<a[1] + b[1] + c[1] + d[1] + e[1] + ((a[2] + b[2] + c[2] + d[2] + e[2]) \div Half),
      (a[2] + b[2] + c[2] + d[2] + e[2]) % Half>>

\* the sum of line 104 without its reduction modulo 2^32
TempUnmasked(t, r, w) ==
    IntSum5(left_rotate(r[1], 5), RoundF(t, r[2], r[3], r[4]), r[5],
            RoundK(t), w[t + 1])

\* line 104
Temp(t, r, w) ==
    Mask32(IntSum5(left_rotate(r[1], 5), RoundF(t, r[2], r[3], r[4]), r[5],
                   RoundK(t), w[t + 1]))

\* lines 104-109: round t on the registers r = <<a, b, c, d, e>>
Round(t, r, w) == <<Temp(t, r, w), r[1], left_rotate(r[2], 30), r[3], r[4]>>

\* lines 90-109: the registers before round 0 (line 90) and after each of
\* the 80 rounds: regs[t + 1] holds them after t rounds
RECURSIVE Rounds(_, _)
Rounds(regs, w) ==
    IF Len(regs) = 81 THEN regs
    ELSE Rounds(Append(regs, Round(Len(regs) - 1, regs[Len(regs)], w)), w)

\* lines 110-114
AddState(st, r) == [j \in 1..5 |-> Mask32(IntAdd(st[j], r[j]))]

\* sha1_process_block, with what it went through: the schedule, the
\* registers round by round, and the state returned (line 115).
\* Defined for a block of exactly 64 bytes (line 87 raises otherwise).
TraceOf(st, w, regs) == [w |-> w, regs |-> regs, out |-> AddState(st, regs[81])]
RunRounds(st, w) == TraceOf(st, w, Rounds(<<st>>, w))
BlockTrace(blk, st) == RunRounds(st, Schedule(blk))

sha1_process_block(blk, st) == BlockTrace(blk, st).out

\* ------------------------------------------------------------------------
\* sha1_padding (lines 25-30)

\* a zero count that forgets the 0x80 marker byte
ZeroCountNoMarker(msg_len) == (56 - (msg_len % 64)) % 64

ZeroCount(msg_len) == (56 - ((msg_len + 1) % 64)) % 64

\* a padding whose length field holds the byte count, not the bit count
sha1_padding_bytes(msg_len) ==
    <<128>> \o Zeros(ZeroCount(msg_len)) \o PackQ(msg_len)

sha1_padding(msg_len) == <<128>> \o Zeros(ZeroCount(msg_len)) \o PackQ(msg_len * 8)


\* ------------------------------------------------------------------------
\* Character strings: hex digits, int(s, 16), bytes.hex()

HexLower == <<"0", "1", "2", "3", "4", "5", "6", "7", "8", "9",
              "a", "b", "c", "d", "e", "f">>
HexUpper == <<"0", "1", "2", "3", "4", "5", "6", "7", "8", "9",
              "A", "B", "C", "D", "E", "F">>

IsHexDigit(c) == \E k \in 1..16 : HexLower[k] = c \/ HexUpper[k] = c
HexVal(c) == (CHOOSE k \in 1..16 : HexLower[k] = c \/ HexUpper[k] = c) - 1

IsSpace(c) == c \in {" ", "\t", "\n"}

\* Python's slice s[from:to] of a string or bytes, 0 <= from <= to
\* (0-based, j exclusive, cut at the end of s)
Slice(s, from, to) ==
    SubSeq(s, from + 1, IF to < Len(s) THEN to ELSE Len(s))

RECURSIVE LStrip(_)
LStrip(s) == IF s # <<>> /\ IsSpace(s[1]) THEN LStrip(Tail(s)) ELSE s
RECURSIVE RStrip(_)
RStrip(s) == IF s # <<>> /\ IsSpace(s[Len(s)])
             THEN RStrip(SubSeq(s, 1, Len(s) - 1)) ELSE s

\* The digits of an integer literal: hex digits, single underscores only
\* between two of them.
DigitsOk(d) ==
    /\ d # <<>>
    /\ \A k \in 1..Len(d) :
          \/ IsHexDigit(d[k])
          \/ /\ d[k] = "_"
             /\ k > 1 /\ k < Len(d)
             /\ IsHexDigit(d[k - 1]) /\ IsHexDigit(d[k + 1])

\* -a = ~a + 1
IntNeg(a) == IntAdd(IntNot(a), <<0, 1>>)

\* The value of the digits d in base 16, underscores skipped
RECURSIVE DigitsValue(_, _)
DigitsValue(d, acc) ==
    IF d = <<>> THEN acc
    ELSE IF d[1] = "_" THEN DigitsValue(Tail(d), acc)
    ELSE DigitsValue(Tail(d),
                     <<16 * acc[1] + ((16 * acc[2] + HexVal(d[1])) \div Half),
                       (16 * acc[2] + HexVal(d[1])) % Half>>)

\* int(s, 16): white space around the literal is dropped; then a sign, a
\* 0x or 0X prefix (one underscore may follow it), and the digits.
\* ok = FALSE stands for ValueError.
ParseInt16(s) ==
    LET t == RStrip(LStrip(s))
        signed == t # <<>> /\ t[1] \in {"+", "-"}
        u == IF signed THEN Tail(t) ELSE t
        prefixed == Len(u) >= 2 /\ u[1] = "0" /\ u[2] \in {"x", "X"}
        v == IF prefixed THEN Tail(Tail(u)) ELSE u
        d == IF prefixed /\ v # <<>> /\ v[1] = "_" THEN Tail(v) ELSE v
        ok == DigitsOk(d)
        mag == IF ok THEN DigitsValue(d, <<0, 0>>) ELSE <<0, 0>>
    IN  [ok |-> ok,
         val |-> IF signed /\ t[1] = "-" THEN IntNeg(mag) ELSE mag]

\* bytes.hex(): two lower-case digits per byte
RECURSIVE Hex(_)
Hex(b) == IF b = <<>> THEN <<>>
          ELSE <<HexLower[(b[1] \div 16) + 1], HexLower[(b[1] % 16) + 1]>> \o Hex(Tail(b))

\* struct.pack('>5I', h0, h1, h2, h3, h4): defined when every argument is
\* in 0..2^32-1 (struct.error otherwise)
Pack5IOk(st) == \A j \in 1..5 : IsWord(st[j])
Pack5I(st) ==
    PackI(st[1]) \o PackI(st[2]) \o PackI(st[3]) \o PackI(st[4]) \o PackI(st[5])

\* groups taken every 4 characters instead of every 8
ParseStateOverlapping(hex) ==
    [j \in 1..5 |-> ParseInt16(Slice(hex, 4 * (j - 1), 4 * (j - 1) + 8))]

\* line 48: [int(original_hash_hex[i:i + 8], 16) for i in range(0, 40, 8)]
ParseState(hex) == [j \in 1..5 |-> ParseInt16(Slice(hex, 8 * (j - 1), 8 * j))]


\* ------------------------------------------------------------------------
\* The lines of sha1_extend and sha1_extend_hash that compute lengths and
\* byte strings.

\* an original length that leaves the secret out
OriginalMsgLenKnownOnly(secret_len, known) == Len(known)

\* line 49
OriginalMsgLen(secret_len, known) == secret_len + Len(known)

\* a suffix without the bridge padding
NewDataNoPadding(known, pad, appended) == known \o appended

\* line 51
NewData(known, pad, appended) == known \o pad \o appended

\* a processed length that leaves the bridge padding out
PreviousLengthNoPadding(orig_len, pad) == orig_len

\* line 52: previous_length = original_msg_len + len(padding)
PreviousLength(orig_len, pad) == orig_len + Len(pad)

\* a total length that counts the appended bytes only
TotalLengthDataOnly(prev_len, d) == Len(d)

\* line 68
TotalLength(prev_len, d) == prev_len + Len(d)

\* line 69
PaddedData(d, total) == d \o sha1_padding(total)

\* ------------------------------------------------------------------------
\* The standard hasher the demo calls (hashlib.sha1, lines 126 and 139):
\* the fold of the compression function over message || padding from the
\* standard initial state.

IV == <<<<26437, 8961>>, <<61389, 43913>>, <<39098, 56574>>,
        <<4146, 21622>>, <<50130, 57840>>>>

\* the consecutive 64-byte blocks of a byte string whose length is a
\* multiple of 64
Blocks(m) == [k \in 1..(Len(m) \div 64) |-> SubSeq(m, 64 * k - 63, 64 * k)]

\* the chaining states: states[1] the initial one, states[k + 1] after block k
RECURSIVE Chain(_, _)
Chain(states, bs) ==
    IF Len(states) = Len(bs) + 1 THEN states
    ELSE Chain(Append(states,
                      sha1_process_block(bs[Len(states)], states[Len(states)])), bs)

\* what the standard hasher goes through: the blocks, the chaining states
\* and the digest, the last state serialized
RunOf(bs, states) ==
    [blocks |-> bs, states |-> states, digest |-> Pack5I(states[Len(states)])]
RunOver(bs) == RunOf(bs, Chain(<<IV>>, bs))
Sha1Run(m) == RunOver(Blocks(m \o sha1_padding(Len(m))))

\* ------------------------------------------------------------------------
\* Inputs

\* secret = "mysecret", original_data = b"A|5", append_data = b"|1000000000"
\* (lines 123, 124, 129)
DemoSecret == <<109, 121, 115, 101, 99, 114, 101, 116>>
DemoOriginalData == <<65, 124, 53>>
DemoAppendData == <<124, 49, 48, 48, 48, 48, 48, 48, 48, 48, 48>>

\* n bytes that depend on their position and on salt
Bytes(n, salt) == [j \in 1..n |-> (salt + 89 * j + (j \div 7) * 128) % 256]

\* The digest strings a caller hands to sha1_extend, made from the digest d
\* the server gave out.
Variants == {"as_is", "upper", "first39", "first33", "first32", "longer",
             "plus", "minus", "space", "underscore", "leading_underscore",
             "not_hex", "prefix_0x", "empty", "trailing_space",
             "all_f", "all_0"}

Upper(c) == IF \E k \in 1..16 : HexLower[k] = c
            THEN HexUpper[CHOOSE k \in 1..16 : HexLower[k] = c] ELSE c

Supplied(v, d) ==
    CASE v = "upper" -> [k \in 1..Len(d) |-> Upper(d[k])]
      [] v = "first39" -> SubSeq(d, 1, 39)
      [] v = "first33" -> SubSeq(d, 1, 33)
      [] v = "first32" -> SubSeq(d, 1, 32)
      [] v = "longer" -> d \o <<"f", "f">>
      [] v = "plus" -> [d EXCEPT ![1] = "+"]
      [] v = "minus" -> [d EXCEPT ![1] = "-"]
      [] v = "space" -> [d EXCEPT ![1] = " "]
      [] v = "underscore" -> [d EXCEPT ![2] = "_"]
      [] v = "leading_underscore" -> [d EXCEPT ![1] = "_"]
      [] v = "not_hex" -> [d EXCEPT ![1] = "g"]
      [] v = "prefix_0x" -> [d EXCEPT ![1] = "0", ![2] = "x"]
      [] v = "empty" -> <<>>
      [] v = "trailing_space" -> [d EXCEPT ![8] = " "]
      [] v = "all_f" -> [k \in 1..40 |-> "f"]
      [] v = "all_0" -> [k \in 1..40 |-> "0"]
      [] OTHER -> d

MaxKnownLen == 3
SecretLens == {0, 8, 55, 119}
AppendLens == {0, 1, 11, 55, 56, 64}

\* What a run of the demo is given: the server's secret, the known suffix,
\* the bytes to append, the secret length the attacker assumes and the
\* digest string handed over.
DemoInputs ==
    {[secret |-> Bytes(sl, 17), original_data |-> Bytes(kl, 101),
      append_data |-> Bytes(al, 201), secret_length |-> sl, variant |-> "as_is"] :
        sl \in SecretLens, kl \in 0..MaxKnownLen, al \in AppendLens}
    \cup
    {[secret |-> DemoSecret, original_data |-> DemoOriginalData,
      append_data |-> DemoAppendData, secret_length |-> Len(DemoSecret),
      variant |-> v] : v \in Variants}
    \cup
    {[secret |-> DemoSecret, original_data |-> DemoOriginalData,
      append_data |-> DemoAppendData, secret_length |-> n,
      variant |-> "as_is"] : n \in {Len(DemoSecret) - 1, Len(DemoSecret) + 1}}

\* ------------------------------------------------------------------------
\* Groups of variables

demoVars == <<secret, variant, original_hash, test_message, test_run>>
extendArgs == <<original_hash_hex, original_data, append_data, secret_length>>
extendLocals == <<h, original_msg_len, padding, new_data>>
hashArgs == <<initial_state, data, previous_length>>
hashLocals == <<total_length, padded_data, i, hs, blocks, broke>>
blockVars == <<block, state_in, trace>>
padVars == <<arg_msg_len, pad_out>>

vars == <<call, pc, error, demoVars, extendArgs, extendLocals, result,
          hashArgs, hashLocals, new_hash, blockVars, padVars>>

\* a variable that holds nothing yet
None == <<>>

\* nothing computed yet
NoLocals ==
    /\ error = "none"
    /\ original_hash = None /\ test_message = None /\ test_run = None
    /\ original_hash_hex = None
    /\ h = None /\ original_msg_len = 0 /\ padding = None /\ new_data = None
    /\ result = None
    /\ total_length = 0 /\ padded_data = None /\ i = 0 /\ hs = None
    /\ new_hash = None /\ blocks = <<>> /\ broke = FALSE
    /\ trace = None /\ pad_out = None

NoDemoArgs ==
    /\ secret = None /\ variant = "as_is"
    /\ original_data = None /\ append_data = None /\ secret_length = 0
NoHashArgs == initial_state = None /\ data = None /\ previous_length = 0
NoBlockArgs == block = None /\ state_in = None
NoPadArgs == arg_msg_len = 0

\* ------------------------------------------------------------------------
\* The demo (lines 122-141) around sha1_extend

Init ==
    /\ call = "demo" /\ pc = "main"
    /\ \E inp \in DemoInputs :
          /\ secret = inp.secret
          /\ original_data = inp.original_data
          /\ append_data = inp.append_data
          /\ secret_length = inp.secret_length
          /\ variant = inp.variant
    /\ NoHashArgs /\ NoBlockArgs /\ NoPadArgs /\ NoLocals

\* lines 125-126, and the arguments of the call of lines 130-135
DemoHashOriginal ==
    /\ pc = "main"
    /\ original_hash' = Hex(Sha1Run(secret \o original_data).digest)
    /\ original_hash_hex' = Supplied(variant, original_hash')
    /\ pc' = "sha1_extend"
    /\ UNCHANGED <<call, error, secret, variant, test_message, test_run,
                   original_data, append_data, secret_length, extendLocals, result,
                   hashArgs, hashLocals, new_hash, blockVars, padVars>>

\* lines 48-52, up to the call of sha1_extend_hash
sha1_extend ==
    /\ pc = "sha1_extend"
    /\ LET parsed == ParseState(original_hash_hex)
           len == OriginalMsgLen(secret_length, original_data)
           pad == sha1_padding(len)
       IN  IF \E j \in 1..5 : ~parsed[j].ok
           THEN /\ error' = "ValueError"
                /\ pc' = "error"
                /\ UNCHANGED <<extendLocals, hashArgs>>
           ELSE /\ h' = [j \in 1..5 |-> parsed[j].val]
                /\ original_msg_len' = len
                /\ padding' = pad
                /\ new_data' = NewData(original_data, pad, append_data)
                /\ initial_state' = h'
                /\ data' = append_data
                /\ previous_length' = PreviousLength(len, pad)
                /\ pc' = "sha1_extend_hash"
                /\ UNCHANGED error
    /\ UNCHANGED <<call, demoVars, extendArgs, result, hashLocals, new_hash,
                   blockVars, padVars>>

\* lines 67-69
sha1_extend_hash ==
    /\ pc = "sha1_extend_hash"
    /\ hs' = initial_state
    /\ total_length' = TotalLength(previous_length, data)
    /\ padded_data' = PaddedData(data, total_length')
    /\ i' = 0
    /\ pc' = "fold"
    /\ UNCHANGED <<call, error, demoVars, extendArgs, extendLocals, result,
                   hashArgs, blocks, broke, new_hash, blockVars, padVars>>

\* lines 70-74: one turn of the loop, or its end
Fold ==
    /\ pc = "fold"
    /\ IF i < Len(padded_data)
       THEN LET b == Slice(padded_data, i, i + 64)
            IN  IF Len(b) < 64
                THEN /\ broke' = TRUE
                     /\ pc' = "return"
                     /\ UNCHANGED <<i, hs, blocks, blockVars>>
                ELSE /\ block' = b
                     /\ state_in' = hs
                     /\ trace' = BlockTrace(b, hs)
                     /\ hs' = trace'.out
                     /\ blocks' = Append(blocks, b)
                     /\ i' = i + 64
                     /\ pc' = "fold"
                     /\ UNCHANGED broke
       ELSE /\ pc' = "return"
            /\ UNCHANGED <<i, hs, blocks, broke, blockVars>>
    /\ UNCHANGED <<call, error, demoVars, extendArgs, extendLocals, result,
                   hashArgs, total_length, padded_data, new_hash, padVars>>

\* line 75
HashReturn ==
    /\ pc = "return"
    /\ IF Pack5IOk(hs)
       THEN /\ new_hash' = Pack5I(hs)
            /\ pc' = IF call = "demo" THEN "extend_return" ELSE "done"
            /\ UNCHANGED error
       ELSE /\ error' = "struct.error"
            /\ pc' = "error"
            /\ UNCHANGED new_hash
    /\ UNCHANGED <<call, demoVars, extendArgs, extendLocals, result,
                   hashArgs, hashLocals, blockVars, padVars>>

\* line 53
ExtendReturn ==
    /\ pc = "extend_return"
    /\ result' = <<Hex(new_hash), new_data>>
    /\ pc' = "verify"
    /\ UNCHANGED <<call, error, demoVars, extendArgs, extendLocals,
                   hashArgs, hashLocals, new_hash, blockVars, padVars>>

\* lines 138-141
DemoVerify ==
    /\ pc = "verify"
    /\ test_message' = secret \o result[2]
    /\ test_run' = Sha1Run(test_message')
    /\ pc' = "done"
    /\ UNCHANGED <<call, error, secret, variant, original_hash,
                   extendArgs, extendLocals, result,
                   hashArgs, hashLocals, new_hash, blockVars, padVars>>

Next ==
    \/ DemoHashOriginal
    \/ sha1_extend
    \/ sha1_extend_hash
    \/ Fold
    \/ HashReturn
    \/ ExtendReturn
    \/ DemoVerify

Spec == Init /\ [][Next]_vars

\* ------------------------------------------------------------------------
\* sha1_padding called on its own

MaxMsgLen == 200
MaxOffset == 64

\* small lengths, and lengths whose bit count needs 3 and 4 bytes
MsgLens ==
    (0..MaxMsgLen)
    \cup {2^13 - 1 + k : k \in 0..MaxOffset}
    \cup {2^21 - 1 + k : k \in 0..MaxOffset}
    \cup {2^27 - 1 + k : k \in 0..MaxOffset}

InitPadding ==
    /\ call = "sha1_padding" /\ pc = "sha1_padding"
    /\ arg_msg_len \in MsgLens
    /\ NoDemoArgs /\ NoHashArgs /\ NoBlockArgs /\ NoLocals

\* lines 25-30
PaddingCall ==
    /\ pc = "sha1_padding"
    /\ pad_out' = sha1_padding(arg_msg_len)
    /\ pc' = "done"
    /\ UNCHANGED <<call, error, demoVars, extendArgs, extendLocals, result,
                   hashArgs, hashLocals, new_hash, blockVars, arg_msg_len>>

NextPadding == PaddingCall

SpecPadding == InitPadding /\ [][NextPadding]_vars

\* ------------------------------------------------------------------------
\* sha1_extend_hash called on its own, with any previous_length

MaxPreviousLength == 65
DataLens == {0, 64}

\* int("-1234567", 16) = -0x1234567 as a first word
NegativeState == [IV EXCEPT ![1] = IntNeg(<<291, 17767>>)]

InitHash ==
    /\ call = "sha1_extend_hash" /\ pc = "sha1_extend_hash"
    /\ initial_state \in {IV, NegativeState}
    /\ data \in {Bytes(n, 201) : n \in DataLens}
    /\ previous_length \in 0..MaxPreviousLength
    /\ NoDemoArgs /\ NoBlockArgs /\ NoPadArgs /\ NoLocals

NextHash ==
    \/ sha1_extend_hash
    \/ Fold
    \/ HashReturn

SpecHash == InitHash /\ [][NextHash]_vars

\* ------------------------------------------------------------------------
\* sha1_process_block called on its own

MaxBlockSalt == 7
BlockLens == {0, 63, 64, 65}

TestBlocks ==
    {Bytes(n, salt) : n \in BlockLens, salt \in 0..MaxBlockSalt}
    \cup {[j \in 1..64 |-> 255], [j \in 1..64 |-> 0]}

TestStates ==
    {IV,
     [j \in 1..5 |-> <<Half - 1, Half - 1>>],
     [j \in 1..5 |-> <<0, 0>>],
     NegativeState,
     [IV EXCEPT ![1] = <<Half, 0>>]}

InitBlock ==
    /\ call = "sha1_process_block" /\ pc = "sha1_process_block"
    /\ block \in TestBlocks
    /\ state_in \in TestStates
    /\ NoDemoArgs /\ NoHashArgs /\ NoPadArgs /\ NoLocals

\* lines 86-115; line 87 raises struct.error unless the block has 64 bytes
ProcessBlockCall ==
    /\ pc = "sha1_process_block"
    /\ IF Len(block) = 64
       THEN /\ trace' = BlockTrace(block, state_in)
            /\ pc' = "done"
            /\ UNCHANGED error
       ELSE /\ error' = "struct.error"
            /\ pc' = "error"
            /\ UNCHANGED trace
    /\ UNCHANGED <<call, demoVars, extendArgs, extendLocals, result,
                   hashArgs, hashLocals, new_hash, block, state_in, padVars>>

NextBlock == ProcessBlockCall

SpecBlock == InitBlock /\ [][NextBlock]_vars

\* ------------------------------------------------------------------------
\* Properties of sha1_padding (SpecPadding)

PaddingDone == call = "sha1_padding" /\ pc = "done"

LastBytes(b, n) == SubSeq(b, Len(b) - n + 1, Len(b))

\* C2: for every byte length L, sha1_padding(L) has at least 9 bytes,
\* L + len(sha1_padding(L)) is a multiple of 64, and the last 8 bytes of
\* sha1_padding(L) decode as the big-endian 64-bit integer L * 8.
PaddingAlignsAndEncodesBits ==
    PaddingDone =>
        /\ Len(pad_out) >= 9
        /\ (arg_msg_len + Len(pad_out)) % 64 = 0
        /\ UnpackBE(LastBytes(pad_out, 8)) = arg_msg_len * 8

\* a length whose bit count needs more than two bytes has been padded
PaddingOfLongMessage ==
    /\ PaddingDone
    /\ arg_msg_len > MaxMsgLen
    /\ pad_out[Len(pad_out) - 2] # 0
    /\ Len(pad_out) > 9

\* the smallest k >= 0 with (L + 1 + k) mod 64 = 56, looked for over two
\* whole periods
MinimalZeroCount(L) ==
    CHOOSE k \in 0..127 :
        /\ (L + 1 + k) % 64 = 56
        /\ \A m \in 0..(k - 1) : (L + 1 + m) % 64 # 56

\* C3: sha1_padding(L) is one 0x80 byte, then k bytes 0x00, then 8 length
\* bytes, k the smallest non-negative integer with (L + 1 + k) mod 64 = 56;
\* so 0 <= k <= 63 and the length is in [9, 72], 9 exactly when
\* L mod 64 = 55 and 72 exactly when L mod 64 = 56.
PaddingShape ==
    PaddingDone =>
        LET k == MinimalZeroCount(arg_msg_len) IN
        /\ Len(pad_out) = 1 + k + 8
        /\ pad_out[1] = 128
        /\ \A j \in 2..(k + 1) : pad_out[j] = 0
        /\ k \in 0..63
        /\ Len(pad_out) \in 9..72
        /\ (Len(pad_out) = 9 <=> arg_msg_len % 64 = 55)
        /\ (Len(pad_out) = 72 <=> arg_msg_len % 64 = 56)

\* the maximal padding has been produced, for a length that is 56 mod 64
MaximalPaddingSeen ==
    /\ PaddingDone
    /\ arg_msg_len % 64 = 56
    /\ Len(pad_out) = 72
    /\ pad_out[64] = 0

\* ------------------------------------------------------------------------
\* Properties of the demo run (Spec)

InDemo == call = "demo"
AfterParse == pc \in {"sha1_extend_hash", "fold", "return", "extend_return",
                      "verify", "done"}
AfterHashEntry == pc \in {"fold", "return", "extend_return", "verify", "done"}
AfterFold == pc \in {"return", "extend_return", "verify", "done"}
Returned == pc \in {"verify", "done"}

\* C4: the forged suffix sha1_extend returns is K || sha1_padding(n + len(K))
\* || A: it starts with K, ends with A, and what lies between them is
\* exactly the padding of the original total length n + len(K).
ForgedSuffixIsKnownPaddingAppended ==
    InDemo /\ Returned =>
        LET suffix == result[2]
            nK == Len(original_data)
            nA == Len(append_data)
            bridge == sha1_padding(secret_length + nK)
        IN  /\ suffix = original_data \o bridge \o append_data
            /\ Len(suffix) = nK + Len(bridge) + nA
            /\ SubSeq(suffix, 1, nK) = original_data
            /\ SubSeq(suffix, nK + 1, Len(suffix) - nA) = bridge
            /\ SubSeq(suffix, Len(suffix) - nA + 1, Len(suffix)) = append_data

\* the demo of lines 123-135 has returned its 67-byte suffix
DemoSuffixReturned ==
    /\ InDemo /\ pc = "done"
    /\ original_data = DemoOriginalData /\ append_data = DemoAppendData
    /\ secret_length = 8 /\ variant = "as_is"
    /\ Len(result[2]) = 67
    /\ result[2][4] = 128

\* the bytes a string of hex digits denotes
HexBytes(s) ==
    [j \in 1..(Len(s) \div 2) |-> 16 * HexVal(s[2 * j - 1]) + HexVal(s[2 * j])]

WellFormedDigest(s) == Len(s) = 40 /\ \A k \in 1..40 : IsHexDigit(s[k])

\* C7: for a string of exactly 40 hex digits, the 5 words sha1_extend reads
\* from it are each in [0, 2^32), and packing them as big-endian 32-bit
\* words, as sha1_extend_hash does on return, gives the 20 bytes the string
\* denotes.
ParseThenPackIsIdentity ==
    (InDemo /\ pc \notin {"main", "sha1_extend"}
            /\ WellFormedDigest(original_hash_hex)) =>
        /\ pc # "error"
        /\ Len(h) = 5
        /\ \A j \in 1..5 : IsWord(h[j])
        /\ Pack5IOk(h)
        /\ Pack5I(h) = HexBytes(original_hash_hex)

\* an upper-case digest whose first word has its top bit set was read
UpperCaseDigestParsed ==
    /\ InDemo /\ pc = "done" /\ variant = "upper"
    /\ WellFormedDigest(original_hash_hex)
    /\ original_hash_hex # original_hash
    /\ h[1][1] >= 2^15

\* C8: in every run of sha1_extend the previous_length passed on is
\* n + len(K) + len(bridge padding) and a multiple of 64, A || tail padding
\* has a positive multiple of 64 bytes, every block compressed has exactly
\* 64 bytes, and the short-fragment break of the loop is never taken.
ExtendIsAligned ==
    InDemo =>
        /\ ~broke
        /\ \A k \in 1..Len(blocks) : Len(blocks[k]) = 64
        /\ block = None \/ Len(block) = 64
        /\ AfterParse =>
              /\ previous_length
                    = secret_length + Len(original_data) + Len(padding)
              /\ previous_length % 64 = 0
        /\ AfterHashEntry =>
              /\ Len(padded_data) % 64 = 0
              /\ Len(padded_data) >= 64
              /\ SubSeq(padded_data, 1, Len(append_data)) = append_data
        /\ AfterFold => Len(blocks) * 64 = Len(padded_data)

\* maximal bridge padding and maximal tail padding in one run
BothPaddingsMaximal ==
    /\ InDemo /\ pc = "done"
    /\ (secret_length + Len(original_data)) % 64 = 56
    /\ Len(padding) = 72
    /\ Len(append_data) = 56
    /\ Len(blocks) = 2

\* C9: the tail padding sha1_extend_hash appends after A is the padding of
\* secret || forged_suffix: its last 8 bytes encode
\* 8 * (n + len(forged_suffix))
\*   = 8 * (n + len(K) + len(sha1_padding(n + len(K))) + len(A)).
TailPaddingCountsForgedMessage ==
    InDemo /\ AfterHashEntry =>
        LET nA == Len(append_data)
            tail == SubSeq(padded_data, nA + 1, Len(padded_data))
            bits == UnpackBE(LastBytes(padded_data, 8))
            bridge == sha1_padding(secret_length + Len(original_data))
        IN  /\ Len(tail) >= 9
            /\ bits = 8 * (secret_length + Len(new_data))
            /\ bits = 8 * (secret_length + Len(original_data) + Len(bridge) + nA)
            /\ tail = sha1_padding(secret_length + Len(new_data))
            /\ Returned => bits = 8 * (secret_length + Len(result[2]))

\* a forged message of four blocks: 119 + 3 + 70 + 64 bytes, 2048 bits
LongForgedMessageCounted ==
    /\ InDemo /\ pc = "done"
    /\ secret_length = 119 /\ Len(original_data) = 3 /\ Len(append_data) = 64
    /\ UnpackBE(LastBytes(padded_data, 8)) = 2048

\* C1: with d0 the digest of S || K and n = len(S), the forged digest is
\* the digest the standard hasher computes over
\* S || K || pad(len(S) + len(K)) || A: the forger starts from the chaining
\* state the standard hasher holds after the blocks of
\* S || K || pad(len(S) + len(K)) and compresses the same blocks as the
\* standard hasher does from there on.
ForgeryMatchesHonestHasher ==
    (InDemo /\ pc = "done" /\ secret_length = Len(secret)
            /\ original_hash_hex = original_hash) =>
        LET full == secret \o original_data
                      \o sha1_padding(Len(secret) + Len(original_data))
            m == Len(full) \div 64
        IN  /\ Len(full) % 64 = 0
            /\ test_message = full \o append_data
            /\ result[1] = Hex(test_run.digest)
            /\ Hex(Pack5I(initial_state)) = original_hash
            /\ initial_state = test_run.states[m + 1]
            /\ Len(test_run.blocks) = m + Len(blocks)
            /\ \A k \in 1..Len(blocks) : blocks[k] = test_run.blocks[m + k]
            /\ hs = test_run.states[Len(test_run.states)]

\* the demo of lines 123-141 ends with the forged digest 30a28d3c...
DemoForgeryVerified ==
    /\ InDemo /\ pc = "done"
    /\ secret = DemoSecret /\ secret_length = 8 /\ variant = "as_is"
    /\ SubSeq(result[1], 1, 8) = <<"3", "0", "a", "2", "8", "d", "3", "c">>
    /\ result[1] = Hex(test_run.digest)

\* C5: whenever the digest string given to sha1_extend is not exactly 40
\* characters long or holds a character that is no hex digit, the call ends
\* in a format error before any padding or compression, and returns no
\* forged digest and no forged suffix.
MalformedDigestRejected ==
    (InDemo /\ pc \notin {"main", "sha1_extend"}
            /\ ~WellFormedDigest(original_hash_hex)) =>
        /\ pc = "error"
        /\ error = "ValueError"
        /\ padding = None /\ padded_data = None /\ blocks = <<>>
        /\ result = None

\* ------------------------------------------------------------------------
\* Properties of sha1_extend_hash called on its own (SpecHash)

\* C6: a call of sha1_extend_hash in which len(data) +
\* len(sha1_padding(previous_length + len(data))) is no multiple of 64 ends
\* in an error; it never returns a digest computed from the full blocks
\* with the short fragment dropped.
MisalignedCallFailsFast ==
    (call = "sha1_extend_hash" /\ pc # "sha1_extend_hash"
        /\ (Len(data) + Len(sha1_padding(previous_length + Len(data)))) % 64 # 0)
    =>  /\ pc # "done"
        /\ new_hash = None

\* ------------------------------------------------------------------------
\* Properties of sha1_process_block called on its own (SpecBlock)

BlockDone == call = "sha1_process_block" /\ pc = "done"

\* sha1_process_block raises struct.error for a block that has not exactly
\* 64 bytes, and only then
ShortBlockRaises ==
    (call = "sha1_process_block" /\ pc # "sha1_process_block") =>
        IF Len(block) = 64
        THEN pc = "done" /\ error = "none"
        ELSE pc = "error" /\ error = "struct.error" /\ trace = None

StateInRange == Len(state_in) = 5 /\ \A j \in 1..5 : IsWord(state_in[j])

\* C10: for a 64-byte block and an input state of 5 words in [0, 2^32),
\* sha1_process_block returns 5 words in [0, 2^32); after each of the 80
\* rounds a, b, c, d, e are in [0, 2^32), every schedule word w[16..79] is
\* in [0, 2^32), and each output word is (input word + final register)
\* mod 2^32.
BlockStateStaysInRange ==
    (BlockDone /\ Len(block) = 64 /\ StateInRange) =>
        /\ Len(trace.out) = 5
        /\ \A j \in 1..5 : IsWord(trace.out[j])
        /\ Len(trace.regs) = 81
        /\ \A t \in 2..81 : \A j \in 1..5 : IsWord(trace.regs[t][j])
        /\ Len(trace.w) = 80
        /\ \A t \in 17..80 : IsWord(trace.w[t])
        /\ \A j \in 1..5 :
              LET lo == state_in[j][2] + trace.regs[81][j][2]
                  hi == state_in[j][1] + trace.regs[81][j][1] + (lo \div Half)
              IN  trace.out[j] = <<hi % Half, lo % Half>>

\* a block was compressed whose final addition wrapped around 2^32
AdditionWrapped ==
    /\ BlockDone /\ StateInRange
    /\ \E j \in 1..5 : state_in[j][1] + trace.regs[81][j][1] >= Half
    /\ \E t \in 2..81 : trace.regs[t][1][1] >= 2^15

====
